---- MODULE Spec2Model ----
(***************************************************************************)
(* Model of learn_center_loss.py: the center-loss model builder, the batch *)
(* transform, the class-list loader, the learning-rate decay derivation,   *)
(* the average-accuracy computation and the training script's control     *)
(* flow (finetune phase, full training, evaluation, exports).              *)
(*                                                                         *)
(* Spec            the script, from parse_args to its last statement       *)
(* FairSpec        Spec, the script always executing its next statement    *)
(* SpecTransform   transform_inputs / keras.utils.to_categorical           *)
(* SpecAccuracy    the average per-class accuracy of lines 185-188         *)
(* SpecDecay       the decay factor of lines 166-170 under SGD's decay law *)
(* SpecClassList   the class-list file reader of lines 111-117             *)
(***************************************************************************)
EXTENDS Integers, Sequences, FiniteSets, TLC

VARIABLES
    pc,          \* position of the script
    args,        \* the parsed command line (argparse namespace)
    centroids,   \* "None" or the centroid matrix read from --centroids
    layers,      \* names of model.layers, in construction order
    trainable,   \* layer name -> layer.trainable
    weights,     \* layer name -> provenance of the layer's current weights
    compiled,    \* what par_model.compile last fixed: trainable set, decay
    fit,         \* the running / last fit_generator call
    num_epochs,  \* epoch count returned by utils.get_lr_schedule
    callbacks,   \* callback list returned by utils.get_lr_schedule (+ TensorBoard)
    stdout,      \* what the script printed so far
    attempted,   \* exports whose save call has been made
    written,     \* exports whose file was written
    error,       \* "none" or the exception that ended the script
    phases,      \* history: the phases of section 4.5 entered so far
    ti,          \* transform_inputs: arguments and result
    acc,         \* average accuracy: labels, predictions, result
    dc,          \* decay derivation and the optimizer's learning rate
    cl           \* class-list reader: lines consumed, keys collected

mainVars == <<pc, args, centroids, layers, trainable, weights, compiled, fit,
              num_epochs, callbacks, stdout, attempted, written, error, phases>>
vars == <<pc, args, centroids, layers, trainable, weights, compiled, fit,
          num_epochs, callbacks, stdout, attempted, written, error, phases,
          ti, acc, dc, cl>>

(***************************************************************************)
(* Bounds                                                                  *)
(***************************************************************************)
MaxEpochs == 2
MaxClasses == 3
MaxBatch == 3
MaxTest == 3
MaxTrain == 4
MaxLines == 2
MaxLineLen == 3

(***************************************************************************)
(* Rationals as <<numerator, denominator>> with a positive denominator.    *)
(***************************************************************************)
RatEq(a, b) == a[1] * b[2] = b[1] * a[2]
RatLeq(a, b) == a[1] * b[2] <= b[1] * a[2]
RatPos(a) == a[1] > 0

(***************************************************************************)
(* Idle values of the variables a specification does not use.              *)
(***************************************************************************)
TransformIdle == [pc |-> "idle"]
AccuracyIdle == [pc |-> "idle"]
DecayIdle == [pc |-> "idle"]
ClassListIdle == [pc |-> "idle"]

(***************************************************************************)
(* The command line.  epochs = 0 stands for "not given" as well: line 178  *)
(* tests args.epochs for truth.  num_train and batch_size are the data    *)
(* generator's training-set size and --batch_size.                         *)
(***************************************************************************)
Architectures == {"simple", "resnet-50"}
LrSchedules == {"SGDR"}
MainMaxDecays == {<<0, 1>>, <<1, 2>>}
MainDataSizes == {[num_train |-> 3, batch_size |-> 2], [num_train |-> 1, batch_size |-> 2]}
PretrainedFiles == {{"conv1"}, {"conv1", "embedding", "embedding_bn", "prob", "cls_centroids"}}

ArgSpace ==
    [ architecture : Architectures \cup {"bogus"},
      lr_schedule  : LrSchedules \cup {"bogus"},
      sched_param_missing : BOOLEAN,
      centroids    : BOOLEAN,
      finetune     : BOOLEAN,
      finetune_init: 0..MaxEpochs,
      epochs       : 0..MaxEpochs,
      max_decay    : MainMaxDecays,
      data         : MainDataSizes,
      log_dir      : BOOLEAN,
      weight_dump  : BOOLEAN,
      model_dump   : BOOLEAN,
      feature_dump : BOOLEAN ]

NoCompile == [trainable |-> {}, decay |-> <<0, 1>>, phase |-> "none"]
NoFit == [phase |-> "none", epochs |-> 0, done |-> 0, callbacks |-> {}]

MainIdle ==
    /\ pc = "idle" /\ args = [finetune |-> FALSE] /\ centroids = "None"
    /\ layers = <<>> /\ trainable = <<>> /\ weights = <<>>
    /\ compiled = NoCompile /\ fit = NoFit /\ num_epochs = 0 /\ callbacks = {}
    /\ stdout = <<>> /\ attempted = {} /\ written = {} /\ error = "none"
    /\ phases = <<>>

Init ==
    /\ pc = "parse_args"
    /\ args \in ArgSpace
    /\ centroids = "None"
    /\ layers = <<>> /\ trainable = <<>> /\ weights = <<>>
    /\ compiled = NoCompile /\ fit = NoFit /\ num_epochs = 0 /\ callbacks = {}
    /\ stdout = <<>> /\ attempted = {} /\ written = {} /\ error = "none"
    /\ phases = <<>>
    /\ ti = TransformIdle /\ acc = AccuracyIdle /\ dc = DecayIdle /\ cl = ClassListIdle

Range(s) == {s[i] : i \in 1..Len(s)}

Abort(e) == /\ pc' = "aborted" /\ error' = e

(***************************************************************************)
(* parse_args: argparse rejects a value outside `choices` and exits.       *)
(***************************************************************************)
ParseArgs ==
    /\ pc = "parse_args"
    /\ IF args.architecture \notin Architectures \/ args.lr_schedule \notin LrSchedules
       THEN Abort("argparse: invalid choice")
       ELSE pc' = "load_centroids" /\ error' = error
    /\ UNCHANGED <<args, centroids, layers, trainable, weights, compiled, fit,
                   num_epochs, callbacks, stdout, attempted, written, phases,
                   ti, acc, dc, cl>>

(***************************************************************************)
(* Lines 103-120: the centroid matrix, when --centroids is given.          *)
(***************************************************************************)
LoadCentroids ==
    /\ pc = "load_centroids"
    /\ centroids' = IF args.centroids THEN "matrix" ELSE "None"
    /\ pc' = "build"
    /\ UNCHANGED <<args, layers, trainable, weights, compiled, fit, num_epochs,
                   callbacks, stdout, attempted, written, error, phases,
                   ti, acc, dc, cl>>

(***************************************************************************)
(* utils.build_network: the trunk's layers.  Its last layer produces the   *)
(* embedding; whether that layer is itself named 'embedding' depends on    *)
(* the architecture.                                                       *)
(***************************************************************************)
BuildNetwork(architecture) ==
    IF architecture = "simple"
    THEN <<"input_1", "conv1", "embedding">>
    ELSE <<"input_1", "conv1", "embedding", "trunk_out">>

HeadLayers == <<"activation_1", "embedding_bn", "prob", "labels", "cls_centroids",
                "lambda_1", "center_dist", "center_loss">>

HasWeights(l) == l \in {"conv1", "embedding", "embedding_bn", "prob", "cls_centroids"}

(***************************************************************************)
(* center_loss_model: the dual-head model over the trunk.  A weight value  *)
(* is the provenance of the layer's parameters: "init" (initializer),     *)
(* "matrix" (set_weights([centroids])), "pretrained" (load_weights),      *)
(* "trained" (changed by a gradient step), "none" (no parameters).        *)
(***************************************************************************)
CentroidsTrainableAtBuild(c) == c = "None"

center_loss_model(base_model, c) ==
    LET ls == base_model \o HeadLayers
    IN [ layers    |-> ls,
         trainable |-> [l \in Range(ls) |->
                          IF l = "cls_centroids" THEN CentroidsTrainableAtBuild(c) ELSE TRUE],
         weights   |-> [l \in Range(ls) |->
                          IF ~HasWeights(l) THEN "none"
                          ELSE IF l = "cls_centroids" /\ c # "None" THEN "matrix"
                          ELSE "init"] ]

(***************************************************************************)
(* Lines 123-135: build the trunk and the model.                           *)
(***************************************************************************)
BuildModel ==
    /\ pc = "build"
    /\ LET embed_model == BuildNetwork(args.architecture)
           model == center_loss_model(embed_model, centroids)
       IN /\ layers' = model.layers
          /\ trainable' = model.trainable
          /\ weights' = model.weights
    /\ phases' = Append(phases, "INIT")
    /\ pc' = "finetune_test"
    /\ UNCHANGED <<args, centroids, compiled, fit, num_epochs, callbacks, stdout,
                   attempted, written, error, ti, acc, dc, cl>>

(***************************************************************************)
(* Keras: a compiled model trains the weights of the layers that were      *)
(* trainable when compile was called.                                      *)
(***************************************************************************)
TrainableSet(tr) == {l \in DOMAIN tr : tr[l]}

TrainEpoch(w, trained) ==
    [l \in DOMAIN w |-> IF l \in trained /\ HasWeights(l) THEN "trained" ELSE w[l]]

(***************************************************************************)
(* Line 138: the finetune phase is run iff --finetune is given.            *)
(***************************************************************************)
FinetuneAlways == TRUE

FinetuneRequested == args.finetune

(***************************************************************************)
(* Lines 139-141: load_weights(by_name, skip_mismatch) replaces the        *)
(* weights of the layers the file names with a matching shape.             *)
(***************************************************************************)
FinetuneLoad ==
    /\ pc = "finetune_test" /\ FinetuneRequested
    /\ \E file \in PretrainedFiles :
          weights' = [l \in DOMAIN weights |->
                        IF l \in file /\ HasWeights(l) THEN "pretrained" ELSE weights[l]]
    /\ stdout' = stdout \o <<"Loading pre-trained weights", "Pre-training new layers">>
    /\ phases' = Append(phases, "FINETUNE_HEAD_ONLY")
    /\ pc' = "finetune_freeze"
    /\ UNCHANGED <<args, centroids, layers, trainable, compiled, fit, num_epochs,
                   callbacks, attempted, written, error, ti, acc, dc, cl>>

SkipFinetune ==
    /\ pc = "finetune_test" /\ ~FinetuneRequested
    /\ pc' = "lr_schedule"
    /\ UNCHANGED <<args, centroids, layers, trainable, weights, compiled, fit,
                   num_epochs, callbacks, stdout, attempted, written, error, phases,
                   ti, acc, dc, cl>>

(***************************************************************************)
(* Lines 142-144: freeze all but the named layers and the trunk's last.    *)
(***************************************************************************)
FinetuneLayerNames == {"embedding", "embedding_bn", "prob", "cls_centroids"}

FinetuneTrainable(ls, embed_model) ==
    [l \in Range(ls) |-> (l \in FinetuneLayerNames) \/ l = embed_model[Len(embed_model)]]

FinetuneFreeze ==
    /\ pc = "finetune_freeze"
    /\ trainable' = FinetuneTrainable(layers, BuildNetwork(args.architecture))
    /\ pc' = "finetune_compile"
    /\ UNCHANGED <<args, centroids, layers, weights, compiled, fit, num_epochs,
                   callbacks, stdout, attempted, written, error, phases,
                   ti, acc, dc, cl>>

(***************************************************************************)
(* Lines 145-148: SGD without a decay argument (Keras default 0).          *)
(***************************************************************************)
FinetuneCompile ==
    /\ pc = "finetune_compile"
    /\ compiled' = [trainable |-> TrainableSet(trainable), decay |-> <<0, 1>>,
                    phase |-> "finetune"]
    /\ fit' = [phase |-> "finetune", epochs |-> args.finetune_init, done |-> 0,
               callbacks |-> {}]
    /\ pc' = "finetune_fit"
    /\ UNCHANGED <<args, centroids, layers, trainable, weights, num_epochs,
                   callbacks, stdout, attempted, written, error, phases,
                   ti, acc, dc, cl>>

(***************************************************************************)
(* Lines 149-153: fit_generator for finetune_init epochs, no callbacks.    *)
(***************************************************************************)
FinetuneEpoch ==
    /\ pc = "finetune_fit" /\ fit.done < fit.epochs
    /\ weights' = TrainEpoch(weights, compiled.trainable)
    /\ fit' = [fit EXCEPT !.done = @ + 1]
    /\ UNCHANGED <<pc, args, centroids, layers, trainable, compiled, num_epochs,
                   callbacks, stdout, attempted, written, error, phases,
                   ti, acc, dc, cl>>

(***************************************************************************)
(* Lines 154-156: unfreeze every layer.                                    *)
(***************************************************************************)
UnfreezeNone(tr) == tr

UnfreezeAll(tr) == [l \in DOMAIN tr |-> TRUE]

FinetuneUnfreeze ==
    /\ pc = "finetune_fit" /\ fit.done = fit.epochs
    /\ trainable' = UnfreezeAll(trainable)
    /\ stdout' = Append(stdout, "Full model training")
    /\ pc' = "lr_schedule"
    /\ UNCHANGED <<args, centroids, layers, weights, compiled, fit, num_epochs,
                   callbacks, attempted, written, error, phases, ti, acc, dc, cl>>

(***************************************************************************)
(* utils.get_lr_schedule: a missing schedule-specific parameter is a       *)
(* configuration error; otherwise the schedule's callbacks and its epoch   *)
(* count.                                                                  *)
(***************************************************************************)
get_lr_schedule(a, n) ==
    IF a.sched_param_missing
    THEN [error |-> "get_lr_schedule: missing parameter", callbacks |-> {}, num_epochs |-> 0]
    ELSE [error |-> "none", callbacks |-> {"lr_schedule"}, num_epochs |-> n]

(***************************************************************************)
(* Lines 159-164: the schedule, plus TensorBoard when --log_dir is given.  *)
(***************************************************************************)
GetLrSchedule ==
    /\ pc = "lr_schedule"
    /\ phases' = Append(phases, "FULL_TRAIN")
    /\ \E n \in 1..MaxEpochs :
          LET r == get_lr_schedule(args, n)
          IN IF r.error # "none"
             THEN /\ Abort(r.error)
                  /\ UNCHANGED <<callbacks, num_epochs>>
             ELSE /\ callbacks' = r.callbacks \cup
                                  (IF args.log_dir THEN {"tensorboard"} ELSE {})
                  /\ num_epochs' = r.num_epochs
                  /\ pc' = "compile" /\ error' = error
    /\ UNCHANGED <<args, centroids, layers, trainable, weights, compiled, fit,
                   stdout, attempted, written, ti, acc, dc, cl>>

(***************************************************************************)
(* Line 178 (and 167): the explicit epoch count, else the schedule's.      *)
(***************************************************************************)
TrainEpochs(epochs, schedule_epochs) == IF epochs # 0 THEN epochs ELSE schedule_epochs

(***************************************************************************)
(* Lines 166-169: the decay factor, as a rational.  max_decay = p/q gives  *)
(* (1/max_decay - 1) / T = (q - p) / (p * T), T = (num_train //            *)
(* batch_size) * epochs; T = 0 raises ZeroDivisionError.                   *)
(***************************************************************************)
DecaySteps(num_train, batch_size, epochs) == (num_train \div batch_size) * epochs

ComputeDecay_NoMinusOne(max_decay, num_train, batch_size, epochs) ==
    IF RatPos(max_decay)
    THEN LET T == DecaySteps(num_train, batch_size, epochs)
         IN IF T = 0 THEN [raised |-> "ZeroDivisionError"]
            ELSE [raised |-> "none", value |-> <<max_decay[2], max_decay[1] * T>>]
    ELSE [raised |-> "none", value |-> <<0, 1>>]

ComputeDecay(max_decay, num_train, batch_size, epochs) ==
    IF RatPos(max_decay)
    THEN LET T == DecaySteps(num_train, batch_size, epochs)
         IN IF T = 0 THEN [raised |-> "ZeroDivisionError"]
            ELSE [raised |-> "none",
                  value  |-> <<max_decay[2] - max_decay[1], max_decay[1] * T>>]
    ELSE [raised |-> "none", value |-> <<0, 1>>]

(***************************************************************************)
(* Lines 166-173: derive the decay and compile for full training.          *)
(***************************************************************************)
Compile ==
    /\ pc = "compile"
    /\ LET e == TrainEpochs(args.epochs, num_epochs)
           decay == ComputeDecay(args.max_decay, args.data.num_train,
                                 args.data.batch_size, e)
       IN IF decay.raised # "none"
          THEN /\ Abort(decay.raised)
               /\ UNCHANGED <<compiled, fit>>
          ELSE /\ compiled' = [trainable |-> TrainableSet(trainable), decay |-> decay.value,
                               phase |-> "full"]
               /\ fit' = [phase |-> "full", epochs |-> e, done |-> 0,
                          callbacks |-> callbacks]
               /\ pc' = "fit" /\ error' = error
    /\ UNCHANGED <<args, centroids, layers, trainable, weights, num_epochs,
                   callbacks, stdout, attempted, written, phases, ti, acc, dc, cl>>

(***************************************************************************)
(* Lines 175-180: full training, one epoch per step.                       *)
(***************************************************************************)
FitEpoch ==
    /\ pc = "fit" /\ fit.done < fit.epochs
    /\ weights' = TrainEpoch(weights, compiled.trainable)
    /\ fit' = [fit EXCEPT !.done = @ + 1]
    /\ UNCHANGED <<pc, args, centroids, layers, trainable, compiled, num_epochs,
                   callbacks, stdout, attempted, written, error, phases,
                   ti, acc, dc, cl>>

(***************************************************************************)
(* Lines 183-188: evaluation output, then the average accuracy.            *)
(***************************************************************************)
Evaluate ==
    /\ pc = "fit" /\ fit.done = fit.epochs
    /\ stdout' = Append(stdout, "evaluate_generator")
    /\ phases' = Append(phases, "EVALUATE")
    /\ pc' = "average_accuracy"
    /\ UNCHANGED <<args, centroids, layers, trainable, weights, compiled, fit,
                   num_epochs, callbacks, attempted, written, error, ti, acc, dc, cl>>

AverageAccuracy ==
    /\ pc = "average_accuracy"
    /\ stdout' = Append(stdout, "Average Accuracy")
    /\ pc' = "weight_dump"
    /\ UNCHANGED <<args, centroids, layers, trainable, weights, compiled, fit,
                   num_epochs, callbacks, attempted, written, error, phases,
                   ti, acc, dc, cl>>

(***************************************************************************)
(* Exports.  Whether a write succeeds is the file system's choice.  The    *)
(* phase history records EXPORT when the first export is attempted.        *)
(***************************************************************************)
EnterExport(ph) == IF "EXPORT" \in Range(ph) THEN ph ELSE Append(ph, "EXPORT")

SaveWeights_NoTry ==
    /\ pc = "weight_dump"
    /\ IF args.weight_dump
       THEN /\ attempted' = attempted \cup {"weights"}
            /\ phases' = EnterExport(phases)
            /\ stdout' = stdout
            /\ \E ok \in BOOLEAN :
                  IF ok
                  THEN written' = written \cup {"weights"}
                       /\ pc' = "model_dump" /\ error' = error
                  ELSE written' = written /\ Abort("save_weights: IOError")
       ELSE /\ UNCHANGED <<attempted, phases, written, stdout>>
            /\ pc' = "model_dump" /\ error' = error
    /\ UNCHANGED <<args, centroids, layers, trainable, weights, compiled, fit,
                   num_epochs, callbacks, ti, acc, dc, cl>>

(***************************************************************************)
(* Lines 191-195: save_weights inside try / except Exception.              *)
(***************************************************************************)
SaveWeights ==
    /\ pc = "weight_dump"
    /\ IF args.weight_dump
       THEN /\ attempted' = attempted \cup {"weights"}
            /\ phases' = EnterExport(phases)
            /\ \E ok \in BOOLEAN :
                  IF ok
                  THEN written' = written \cup {"weights"} /\ stdout' = stdout
                  ELSE written' = written
                       /\ stdout' = Append(stdout, "An error occurred while saving the model weights")
       ELSE UNCHANGED <<attempted, phases, written, stdout>>
    /\ pc' = "model_dump" /\ error' = error
    /\ UNCHANGED <<args, centroids, layers, trainable, weights, compiled, fit,
                   num_epochs, callbacks, ti, acc, dc, cl>>

(***************************************************************************)
(* Lines 196-200: save inside try / except Exception.                      *)
(***************************************************************************)
SaveModel ==
    /\ pc = "model_dump"
    /\ IF args.model_dump
       THEN /\ attempted' = attempted \cup {"model"}
            /\ phases' = EnterExport(phases)
            /\ \E ok \in BOOLEAN :
                  IF ok
                  THEN written' = written \cup {"model"} /\ stdout' = stdout
                  ELSE written' = written
                       /\ stdout' = Append(stdout, "An error occurred while saving the model")
       ELSE UNCHANGED <<attempted, phases, written, stdout>>
    /\ pc' = "feature_dump" /\ error' = error
    /\ UNCHANGED <<args, centroids, layers, trainable, weights, compiled, fit,
                   num_epochs, callbacks, ti, acc, dc, cl>>

(***************************************************************************)
(* Lines 203-206: the feature dump; open / pickle.dump are not guarded.    *)
(***************************************************************************)
SaveFeatures ==
    /\ pc = "feature_dump"
    /\ IF args.feature_dump
       THEN /\ attempted' = attempted \cup {"features"}
            /\ \E ok \in BOOLEAN :
                  IF ok
                  THEN /\ written' = written \cup {"features"}
                       /\ phases' = Append(EnterExport(phases), "DONE")
                       /\ pc' = "done" /\ error' = error
                  ELSE /\ written' = written
                       /\ phases' = EnterExport(phases)
                       /\ Abort("feature dump: IOError")
       ELSE /\ UNCHANGED <<attempted, written>>
            /\ phases' = Append(phases, "DONE")
            /\ pc' = "done" /\ error' = error
    /\ UNCHANGED <<args, centroids, layers, trainable, weights, compiled, fit,
                   num_epochs, callbacks, stdout, ti, acc, dc, cl>>

Next ==
    \/ ParseArgs \/ LoadCentroids \/ BuildModel
    \/ FinetuneLoad \/ SkipFinetune \/ FinetuneFreeze \/ FinetuneCompile
    \/ FinetuneEpoch \/ FinetuneUnfreeze
    \/ GetLrSchedule \/ Compile \/ FitEpoch \/ Evaluate \/ AverageAccuracy
    \/ SaveWeights \/ SaveModel \/ SaveFeatures

Spec == Init /\ [][Next]_vars

(***************************************************************************)
(* transform_inputs                                                        *)
(***************************************************************************)
SeqsUpTo(S, n) == UNION {[1..k -> S] : k \in 0..n}

(***************************************************************************)
(* keras.utils.to_categorical(y, num_classes), num_classes >= 1: a zero    *)
(* matrix with categorical[arange(n), y] = 1.  numpy resolves a negative   *)
(* index j >= -num_classes to j + num_classes and raises IndexError for an *)
(* index outside [-num_classes, num_classes).                              *)
(***************************************************************************)
NumpyIndexInBounds(j, size) == j >= -size /\ j < size

NumpyIndex(j, size) == IF j < 0 THEN j + size ELSE j

to_categorical(y, num_classes) ==
    IF \E i \in 1..Len(y) : ~NumpyIndexInBounds(y[i], num_classes)
    THEN [raised |-> "IndexError"]
    ELSE [raised |-> "none",
          value  |-> [i \in 1..Len(y) |->
                        [c \in 0..(num_classes - 1) |->
                            IF c = NumpyIndex(y[i], num_classes) THEN 1 ELSE 0]]]

transform_inputs(X, y, num_classes) ==
    LET T == to_categorical(y, num_classes)
    IN IF T.raised # "none" THEN [raised |-> T.raised]
       ELSE [raised  |-> "none",
             inputs  |-> <<X, y>>,
             targets |-> <<T.value, [i \in 1..Len(X) |-> 0]>>]

TransformInit ==
    /\ \E nc \in 1..MaxClasses :
       \E y \in SeqsUpTo(-(MaxClasses + 1)..MaxClasses, MaxBatch) :
          ti = [pc |-> "call", X |-> [i \in 1..Len(y) |-> "image"], y |-> y,
                num_classes |-> nc, result |-> [raised |-> "none"]]
    /\ MainIdle /\ acc = AccuracyIdle /\ dc = DecayIdle /\ cl = ClassListIdle

TransformCall ==
    /\ ti.pc = "call"
    /\ LET r == transform_inputs(ti.X, ti.y, ti.num_classes)
       IN ti' = [ti EXCEPT !.pc = IF r.raised # "none" THEN "raised" ELSE "returned",
                           !.result = r]
    /\ UNCHANGED <<mainVars, acc, dc, cl>>

TransformNext == TransformCall

SpecTransform == TransformInit /\ [][TransformNext]_vars

(***************************************************************************)
(* Average accuracy (lines 185-188)                                        *)
(***************************************************************************)
RatAdd(a, b) == <<a[1] * b[2] + b[1] * a[2], a[2] * b[2]>>

MaxOf(s) == CHOOSE m \in Range(s) : \A x \in Range(s) : x <= m

(***************************************************************************)
(* np.bincount(labels): counts of 0..max(labels), as a function on         *)
(* 0..max(labels).                                                         *)
(***************************************************************************)
bincount(labels) ==
    [c \in 0..MaxOf(labels) |-> Cardinality({i \in 1..Len(labels) : labels[i] = c})]

ClassCount(class_freq) == Cardinality(DOMAIN class_freq)

RECURSIVE WeightedCorrectSum(_, _, _, _)
WeightedCorrectSum(pred, labels, class_freq, i) ==
    IF i = 0 THEN <<0, 1>>
    ELSE RatAdd(WeightedCorrectSum(pred, labels, class_freq, i - 1),
                <<IF pred[i] = labels[i] THEN 1 ELSE 0, class_freq[labels[i]]>>)

average_accuracy(pred, labels, class_freq) ==
    LET s == WeightedCorrectSum(pred, labels, class_freq, Len(labels))
    IN <<s[1], s[2] * ClassCount(class_freq)>>

AccuracyInit ==
    /\ \E nc \in 1..MaxClasses : \E n \in 1..MaxTest :
       \E labels \in [1..n -> 0..(nc - 1)] : \E pred \in [1..n -> 0..(nc - 1)] :
          acc = [pc |-> "predicted", num_classes |-> nc, labels_test |-> labels,
                 test_pred |-> pred, class_freq |-> <<>>, result |-> <<0, 1>>]
    /\ MainIdle /\ ti = TransformIdle /\ dc = DecayIdle /\ cl = ClassListIdle

AccuracyBincount ==
    /\ acc.pc = "predicted"
    /\ acc' = [acc EXCEPT !.pc = "counted", !.class_freq = bincount(acc.labels_test)]
    /\ UNCHANGED <<mainVars, ti, dc, cl>>

AccuracyReport ==
    /\ acc.pc = "counted"
    /\ acc' = [acc EXCEPT !.pc = "printed",
                          !.result = average_accuracy(acc.test_pred, acc.labels_test,
                                                      acc.class_freq)]
    /\ UNCHANGED <<mainVars, ti, dc, cl>>

AccuracyNext == AccuracyBincount \/ AccuracyReport

SpecAccuracy == AccuracyInit /\ [][AccuracyNext]_vars

(***************************************************************************)
(* Decay factor (lines 166-170) and the optimizer's learning rate          *)
(***************************************************************************)
DecayRatios == {<<0, 1>>, <<1, 10>>, <<1, 2>>, <<1, 1>>, <<2, 1>>}

(***************************************************************************)
(* keras.optimizers.SGD: lr_t / lr_0 after t iterations.  The law          *)
(* lr_t = lr_0 / (1 + decay * t) is applied only when decay > 0.           *)
(***************************************************************************)
SGDLr(decay, t) ==
    IF RatPos(decay) THEN <<decay[2], decay[2] + decay[1] * t>> ELSE <<1, 1>>

DecayInit ==
    /\ \E md \in DecayRatios : \E nt \in 1..MaxTrain : \E bs \in 1..MaxBatch :
       \E e \in 0..MaxEpochs : \E ne \in 1..MaxEpochs :
          dc = [pc |-> "compile", max_decay |-> md, num_train |-> nt,
                batch_size |-> bs, epochs |-> e, num_epochs |-> ne,
                decay |-> <<0, 1>>, iterations |-> 0, lr |-> <<1, 1>>]
    /\ MainIdle /\ ti = TransformIdle /\ acc = AccuracyIdle /\ cl = ClassListIdle

DecayCompile ==
    /\ dc.pc = "compile"
    /\ LET d == ComputeDecay(dc.max_decay, dc.num_train, dc.batch_size,
                             TrainEpochs(dc.epochs, dc.num_epochs))
       IN IF d.raised # "none"
          THEN dc' = [dc EXCEPT !.pc = "aborted"]
          ELSE dc' = [dc EXCEPT !.pc = "training", !.decay = d.value,
                                !.lr = SGDLr(d.value, 0)]
    /\ UNCHANGED <<mainVars, ti, acc, cl>>

DecayBatch ==
    /\ dc.pc = "training"
    /\ dc.iterations < DecaySteps(dc.num_train, dc.batch_size,
                                  TrainEpochs(dc.epochs, dc.num_epochs))
    /\ dc' = [dc EXCEPT !.iterations = @ + 1, !.lr = SGDLr(dc.decay, dc.iterations + 1)]
    /\ UNCHANGED <<mainVars, ti, acc, cl>>

DecayNext == DecayCompile \/ DecayBatch

SpecDecay == DecayInit /\ [][DecayNext]_vars

(***************************************************************************)
(* Class-list file (lines 111-117).  A line is a sequence of characters.   *)
(***************************************************************************)
Chars == {"0", "1", "a", " "}
Digits == {"0", "1"}
Lines == SeqsUpTo(Chars, MaxLineLen)

IsBlank(l) == \A i \in 1..Len(l) : l[i] = " "

(***************************************************************************)
(* l.strip().split()[0]: the first maximal run of non-blank characters.    *)
(***************************************************************************)
FirstToken(l) ==
    LET start == CHOOSE i \in 1..Len(l) : l[i] # " " /\ \A k \in 1..(i - 1) : l[k] = " "
        stop  == CHOOSE j \in start..Len(l) :
                    /\ \A k \in start..j : l[k] # " "
                    /\ (j = Len(l) \/ l[j + 1] = " ")
    IN SubSeq(l, start, stop)

(***************************************************************************)
(* OrderedDict((token, None) ...).keys(): a repeated key keeps its first   *)
(* position.                                                               *)
(***************************************************************************)
OrderedDictInsert(keys, k) == IF k \in Range(keys) THEN keys ELSE Append(keys, k)

(***************************************************************************)
(* int(lbl) on the characters of the model: decimal digits parse, leading  *)
(* zeros included; anything else raises ValueError.                        *)
(***************************************************************************)
IsIntLiteral(tok) == Len(tok) > 0 /\ \A i \in 1..Len(tok) : tok[i] \in Digits

DigitValue(c) == IF c = "0" THEN 0 ELSE 1

RECURSIVE IntValue(_)
IntValue(tok) ==
    IF Len(tok) = 0 THEN 0
    ELSE IntValue(SubSeq(tok, 1, Len(tok) - 1)) * 10 + DigitValue(tok[Len(tok)])

CoerceClassList(keys) ==
    IF \A i \in 1..Len(keys) : IsIntLiteral(keys[i])
    THEN [i \in 1..Len(keys) |-> IntValue(keys[i])]
    ELSE keys

ClassListInit ==
    /\ cl = [pc |-> "reading", file |-> <<>>, keys |-> <<>>, class_list |-> <<>>]
    /\ MainIdle /\ ti = TransformIdle /\ acc = AccuracyIdle /\ dc = DecayIdle

ClassListReadLine ==
    /\ cl.pc = "reading" /\ Len(cl.file) < MaxLines
    /\ \E l \in Lines :
          cl' = [cl EXCEPT !.file = Append(@, l),
                           !.keys = IF IsBlank(l) THEN @
                                    ELSE OrderedDictInsert(@, FirstToken(l))]
    /\ UNCHANGED <<mainVars, ti, acc, dc>>

ClassListCoerce ==
    /\ cl.pc = "reading"
    /\ cl' = [cl EXCEPT !.pc = "done", !.class_list = CoerceClassList(cl.keys)]
    /\ UNCHANGED <<mainVars, ti, acc, dc>>

ClassListNext == ClassListReadLine \/ ClassListCoerce

SpecClassList == ClassListInit /\ [][ClassListNext]_vars

FairSpec == Spec /\ WF_vars(Next)

(***************************************************************************)
(* Properties of the script                                                *)
(***************************************************************************)
Trained(w) == \E l \in DOMAIN w : w[l] = "trained"

RequestedExports(a) ==
    (IF a.weight_dump THEN {"weights"} ELSE {})
    \cup (IF a.model_dump THEN {"model"} ELSE {})
    \cup (IF a.feature_dump THEN {"features"} ELSE {})

\* C1: with a fixed centroid matrix, the centroid table is not among the
\* weights any compiled training phase updates, and its weights stay the
\* supplied matrix.
C1_CentroidsFrozen ==
    (centroids # "None" /\ compiled.phase # "none") =>
        /\ "cls_centroids" \notin compiled.trainable
        /\ weights["cls_centroids"] = "matrix"

\* C2: a run that ends with a configuration error has executed no training
\* step.
C2_ConfigErrorBeforeTraining ==
    error \in {"argparse: invalid choice", "get_lr_schedule: missing parameter"}
        => ~Trained(weights)

DumpFailed == {"weights", "model"} \cap (attempted \ written) # {}

C3_Inv ==
    /\ ("weights" \in attempted \ written) =>
          "An error occurred while saving the model weights" \in Range(stdout)
    /\ ("model" \in attempted \ written) =>
          "An error occurred while saving the model" \in Range(stdout)
    /\ (DumpFailed /\ pc = "aborted") => "features" \in attempted
    /\ (pc \in {"feature_dump", "done"} /\ args.model_dump) => "model" \in attempted
    /\ (pc = "done" /\ args.feature_dump) => "features" \in attempted
    /\ (attempted # {}) =>
          \E i, j \in 1..Len(stdout) :
              i < j /\ stdout[i] = "evaluate_generator" /\ stdout[j] = "Average Accuracy"

C4_EveryExportTolerant ==
    /\ (attempted # {}) => error = "none"
    /\ (pc = "done") => attempted = RequestedExports(args)

ExpectedPhases(a) ==
    <<"INIT">> \o (IF a.finetune THEN <<"FINETUNE_HEAD_ONLY">> ELSE <<>>)
    \o <<"FULL_TRAIN", "EVALUATE">>
    \o (IF RequestedExports(a) # {} THEN <<"EXPORT">> ELSE <<>>)
    \o <<"DONE">>

\* C7: the phases entered are always an initial part of INIT, FINETUNE_HEAD_ONLY
\* (iff a pre-trained weight file is given), FULL_TRAIN, EVALUATE, EXPORT (iff an
\* output path is given), DONE; a completed run has entered all of them, has
\* run the full-train fit and the evaluation, and has attempted exactly the
\* requested exports.
C7_PhaseOrder ==
    /\ pc # "parse_args" =>
          \E k \in 0..Len(ExpectedPhases(args)) :
              phases = SubSeq(ExpectedPhases(args), 1, k)
    /\ pc = "done" =>
          /\ phases = ExpectedPhases(args)
          /\ fit.phase = "full" /\ fit.done = fit.epochs
          /\ "evaluate_generator" \in Range(stdout)
          /\ attempted = RequestedExports(args)

C7_Witness ==
    /\ pc = "done" /\ args.finetune /\ args.weight_dump /\ ~args.feature_dump
    /\ Len(phases) = 6

C5_TransformInputs ==
    ti.pc \in {"returned", "raised"} =>
        IF \A i \in 1..Len(ti.y) : ti.y[i] \in 0..(ti.num_classes - 1)
        THEN /\ ti.pc = "returned"
             /\ ti.result.inputs = <<ti.X, ti.y>>
             /\ \A i \in 1..Len(ti.y) : \A c \in 0..(ti.num_classes - 1) :
                    ti.result.targets[1][i][c] = (IF c = ti.y[i] THEN 1 ELSE 0)
             /\ ti.result.targets[2] = [i \in 1..Len(ti.X) |-> 0]
        ELSE ti.pc = "raised"

(***************************************************************************)
(* Properties of the average accuracy                                      *)
(***************************************************************************)
ClassRate(c) ==
    LET members == {i \in 1..Len(acc.labels_test) : acc.labels_test[i] = c}
        correct == {i \in members : acc.test_pred[i] = c}
    IN IF members = {} THEN <<0, 1>> ELSE <<Cardinality(correct), Cardinality(members)>>

RECURSIVE ClassRateSum(_)
ClassRateSum(c) == IF c < 0 THEN <<0, 1>> ELSE RatAdd(ClassRateSum(c - 1), ClassRate(c))

\* C6: the printed value is the mean over the dataset's num_classes classes of
\* the per-class correct rate (a class without test example has no correct
\* prediction and counts as rate 0), and lies in [0, 1].
C6_MeanOverDatasetClasses ==
    acc.pc = "printed" =>
        LET s == ClassRateSum(acc.num_classes - 1)
        IN /\ RatEq(acc.result, <<s[1], s[2] * acc.num_classes>>)
           /\ RatLeq(<<0, 1>>, acc.result) /\ RatLeq(acc.result, <<1, 1>>)

(***************************************************************************)
(* Properties of the decay factor                                          *)
(***************************************************************************)
TotalBatches ==
    (dc.num_train \div dc.batch_size) * (IF dc.epochs # 0 THEN dc.epochs ELSE dc.num_epochs)

C9_ClassListUnique ==
    cl.pc = "done" =>
        /\ Len(cl.class_list) = Len(cl.keys)
        /\ \A i, j \in 1..Len(cl.class_list) :
               i # j => cl.class_list[i] # cl.class_list[j]

====
